---- MODULE Spec2Model ----
(***************************************************************************)
(* The custodial withdrawal activities of temporal_tron.py: the wallet     *)
(* debit and credit, the greedy address selection, the external transfer   *)
(* and the address unlock, each run by concurrent workers against one      *)
(* database.  A row lock (SELECT ... FOR UPDATE) is held from the          *)
(* statement that takes it to the commit or rollback of its transaction,   *)
(* so every activity is split at the points where another worker can run.  *)
(* The activities work on whole units of the stable coin; the conversion   *)
(* to base units is also run on decimal amounts with fractional digits.    *)
(***************************************************************************)
EXTENDS Integers, Sequences, FiniteSets, TLC

\* ---------------------------------------------------------------- bounds
MaxBalance == 2       \* largest initial wallet balance
MaxAmount == 2        \* largest amount of a debit or credit call
MaxAddrBalance == 2   \* largest initial address balance
MaxTarget == 3        \* largest target_amount of a selection
MaxCalls == 2         \* activity tasks handed out in a run
MaxCoef == 15         \* largest coefficient of a decimal amount
MaxDigits == 7        \* most fractional digits of a decimal amount

Workers == {"w1", "w2"}
Users == {"u1", "u2"}
Addrs == {"A", "B", "C"}
ExternalAddrs == {"X"}
None == "none"

VARIABLES
    wallet,                 \* pks_market_wallet: user_id -> balance, one row per user that has a wallet
    wallet_lock,            \* user_id -> worker holding the FOR UPDATE row lock, or None
    addr,                   \* pks_market_address: address -> row
    addr_lock,              \* address -> worker holding the FOR UPDATE row lock, or None
    pc,                     \* worker -> position inside the activity it runs
    params,                 \* worker -> the params dict of the running activity
    user_wallet,            \* worker -> the wallet row it loaded
    remaining,              \* worker -> local of select_addresses_for_withdrawal
    consolidation_address,  \* worker -> local of select_addresses_for_withdrawal
    selected,               \* worker -> local of select_addresses_for_withdrawal
    address,                \* worker -> the row fetched by the current loop iteration
    gas_replenished,        \* worker -> local of withdraw_usdt_to_external
    request,                \* a direct call of send_tron_transaction: its amount, data and response
    ret,                    \* worker -> outcome of its last finished activity
    chain,                  \* transfers accepted by the chain endpoint, in order
    saga,                   \* worker -> the workflow run it executes
    hist                    \* bookkeeping of the run, read by the properties only

vars == <<wallet, wallet_lock, addr, addr_lock, pc, params, user_wallet, remaining,
          consolidation_address, selected, address, gas_replenished, request, ret, chain,
          saga, hist>>

ledgerVars == <<wallet, wallet_lock, user_wallet>>
poolVars == <<addr, addr_lock, remaining, consolidation_address, selected, address>>

\* ---------------------------------------------------------------- helpers
NoParams ==
    [user_id |-> None, amount |-> 0, target_amount |-> 0, from_address |-> None,
     to_address |-> None, addresses |-> {}]

NoRet == [activity |-> None, outcome |-> None, value |-> None]

\* No call of send_tron_transaction has been made.
NoRequest == [state |-> None, coef |-> 0, digits |-> 0, data |-> 0, status |-> None]

\* The activity returned val ("True", "False", "None" or "tuple").
Returned(act, val) == [NoRet EXCEPT !.activity = act, !.outcome = "return", !.value = val]

\* The activity raised the exception exc.
Raised(act, exc) == [NoRet EXCEPT !.activity = act, !.outcome = "raise", !.value = exc]

\* scalar_one_or_none(): <<>> when the user has no wallet row, else <<balance>>.
NoRow == <<>>

RECURSIVE SumAmounts(_)
SumAmounts(s) == IF s = <<>> THEN 0 ELSE Head(s).amount + SumAmounts(Tail(s))

RECURSIVE SumOver(_, _)
SumOver(f, S) ==
    IF S = {} THEN 0
    ELSE LET x == CHOOSE y \in S : TRUE IN f[x] + SumOver(f, S \ {x})

\* ---------------------------------------------------------------- model classes
\* class UserWallet: the rows of the table, keyed by user_id.
UserWallet == DOMAIN wallet

\* class InnerAddress: one row; the activities read the balance column as usdt_balance.
InnerAddress ==
    [usdt_balance : Int, is_locked : BOOLEAN, is_aml_ban : BOOLEAN, is_external : BOOLEAN]
\* Names of the activities.
Debit == "check_user_balance_and_withdraw"
Credit == "rollback_user_balance"
Select == "select_addresses_for_withdrawal"
Withdraw == "withdraw_usdt_to_external"
Unlock == "unlock_addresses"
Gas == "check_and_replenish_gas"

\* Worker w has finished activity act with the given outcome and still holds its frame.
Ended(w, act, outcome) ==
    pc[w] = "done" /\ ret[w].activity = act /\ ret[w].outcome = outcome

\* ---------------------------------------------------------------- invocation
\* A worker picks up an activity task: fresh locals, the params of the task.
Begin(w, start, p) ==
    /\ pc' = [pc EXCEPT ![w] = start]
    /\ params' = [params EXCEPT ![w] = p]
    /\ user_wallet' = [user_wallet EXCEPT ![w] = NoRow]
    /\ remaining' = [remaining EXCEPT ![w] = p.target_amount]
    /\ consolidation_address' = [consolidation_address EXCEPT ![w] = None]
    /\ selected' = [selected EXCEPT ![w] = <<>>]
    /\ address' = [address EXCEPT ![w] = None]
    /\ gas_replenished' = [gas_replenished EXCEPT ![w] = None]

Invoke(w, start, p) == pc[w] = "idle" /\ Begin(w, start, p)

\* The activity of worker w ends with outcome r.
Finish(w, r) ==
    /\ pc' = [pc EXCEPT ![w] = "done"]
    /\ ret' = [ret EXCEPT ![w] = r]

\* The outcome has been handed over; the frame of the activity is gone.
Forget(w) ==
    /\ pc[w] = "done"
    /\ pc' = [pc EXCEPT ![w] = "idle"]
    /\ params' = [params EXCEPT ![w] = NoParams]
    /\ ret' = [ret EXCEPT ![w] = NoRet]
    /\ user_wallet' = [user_wallet EXCEPT ![w] = NoRow]
    /\ remaining' = [remaining EXCEPT ![w] = 0]
    /\ consolidation_address' = [consolidation_address EXCEPT ![w] = None]
    /\ selected' = [selected EXCEPT ![w] = <<>>]
    /\ address' = [address EXCEPT ![w] = None]
    /\ gas_replenished' = [gas_replenished EXCEPT ![w] = None]

\* ---------------------------------------------------------------- wallet debit and credit
\* A wallet query without with_for_update(): it never waits.
WalletRowFree_NoLock(u) == TRUE

\* with_for_update(): the statement waits while another transaction holds the row.
WalletRowFree(u) == wallet_lock[u] = None

\* End of the transaction of worker w (commit or rollback): its wallet row locks go.
ReleaseWallet(w) == [u \in Users |-> IF wallet_lock[u] = w THEN None ELSE wallet_lock[u]]

\* A rejection test that forgets the balance.
Insufficient_NoBalanceTest(row, amount) == row = NoRow

\* A rejection test that also rejects a balance equal to the amount.
Insufficient_OffByOne(row, amount) == IF row = NoRow THEN TRUE ELSE row[1] <= amount

\* The rejection test of check_user_balance_and_withdraw.
Insufficient(row, amount) == IF row = NoRow THEN TRUE ELSE row[1] < amount

\* user_wallet.usdt_balance -= params["amount"]
Withdrawn(row, amount) == row[1] - amount

\* user_wallet.usdt_balance += params["amount"]
RolledBack(row, amount) == row[1] + amount

\* select(UserWallet).where(user_id == ...).with_for_update(); scalar_one_or_none()
LoadWallet(w) ==
    LET u == params[w].user_id IN
    /\ IF u \in UserWallet
          THEN /\ WalletRowFree(u)
               /\ wallet_lock' = [wallet_lock EXCEPT ![u] = w]
               /\ user_wallet' = [user_wallet EXCEPT ![w] = <<wallet[u]>>]
          ELSE /\ wallet_lock' = wallet_lock
               /\ user_wallet' = [user_wallet EXCEPT ![w] = NoRow]

DebitSelect(w) ==
    /\ pc[w] = "debit_select"
    /\ LoadWallet(w)
    /\ pc' = [pc EXCEPT ![w] = "debit_check"]
    /\ UNCHANGED <<wallet, poolVars, params, gas_replenished, request, ret, chain, saga, hist>>

DebitRaise(w) ==
    /\ pc[w] = "debit_check"
    /\ Insufficient(user_wallet[w], params[w].amount)
    /\ wallet_lock' = ReleaseWallet(w)
    /\ Finish(w, Raised(Debit, "ValueError"))
    /\ UNCHANGED <<wallet, user_wallet, poolVars, params, gas_replenished, request, chain, saga, hist>>

DebitCommit(w) ==
    LET u == params[w].user_id IN
    /\ pc[w] = "debit_check"
    /\ ~Insufficient(user_wallet[w], params[w].amount)
    /\ wallet' = [wallet EXCEPT ![u] = Withdrawn(user_wallet[w], params[w].amount)]
    /\ wallet_lock' = ReleaseWallet(w)
    /\ Finish(w, Returned(Debit, "True"))
    /\ hist' = [hist EXCEPT !.debited[u] = @ + params[w].amount]
    /\ UNCHANGED <<user_wallet, poolVars, params, gas_replenished, request, chain, saga>>

CreditSelect(w) ==
    /\ pc[w] = "credit_select"
    /\ LoadWallet(w)
    /\ pc' = [pc EXCEPT ![w] = "credit_update"]
    /\ UNCHANGED <<wallet, poolVars, params, gas_replenished, request, ret, chain, saga, hist>>

\* if not user_wallet: raise ValueError; else the increment and the commit
CreditUpdate(w) ==
    LET u == params[w].user_id IN
    /\ pc[w] = "credit_update"
    /\ IF user_wallet[w] = NoRow
          THEN /\ Finish(w, Raised(Credit, "ValueError"))
               /\ UNCHANGED <<wallet, hist>>
          ELSE /\ wallet' = [wallet EXCEPT ![u] = RolledBack(user_wallet[w], params[w].amount)]
               /\ Finish(w, Returned(Credit, "True"))
               /\ hist' = [hist EXCEPT !.credited[u] = @ + params[w].amount]
    /\ wallet_lock' = ReleaseWallet(w)
    /\ UNCHANGED <<user_wallet, poolVars, params, gas_replenished, request, chain, saga>>

\* ---------------------------------------------------------------- address selection
\* A WHERE clause without the is_locked test.
Eligible_IgnoreLock(row) == row.usdt_balance > 0

\* The WHERE clause of the selection query.
Eligible(row) == row.usdt_balance > 0 /\ row.is_locked = FALSE

\* with_for_update(skip_locked=True): rows locked by another transaction are skipped.
Skipped(a, w) == addr_lock[a] \notin {None, w}

\* The rows the query of worker w can return.
Candidates(w) == {a \in Addrs : Eligible(addr[a]) /\ ~Skipped(a, w)}

\* order_by(desc(usdt_balance)).limit(1): a row of largest balance (ties in any order).
Top(w) ==
    {a \in Candidates(w) :
        \A b \in Candidates(w) : addr[b].usdt_balance <= addr[a].usdt_balance}

\* End of the transaction of worker w: its address row locks go.
ReleaseAddrs(w) == [a \in Addrs |-> IF addr_lock[a] = w THEN None ELSE addr_lock[a]]

\* A loop body that always takes the whole balance.
Allocated_WholeBalance(balance, rem) == balance

\* The amount the loop body allocates from a row that is not the consolidation address.
Allocated(balance, rem) == IF balance <= rem THEN balance ELSE rem

\* while remaining > 0: the query returns a row, which stays locked until the commit.
SelectFetch(w) ==
    /\ pc[w] = "select_loop"
    /\ remaining[w] > 0
    /\ \E a \in Top(w) :
        /\ addr_lock' = [addr_lock EXCEPT ![a] = w]
        /\ address' = [address EXCEPT ![w] = a]
        /\ hist' = [hist EXCEPT !.holder[a] = w]
    /\ pc' = [pc EXCEPT ![w] = "select_commit"]
    /\ UNCHANGED <<ledgerVars, addr, remaining, consolidation_address, selected,
                   params, gas_replenished, request, ret, chain, saga>>

\* if not consolidation_address / elif / address.is_locked = True / commit
SelectCommit(w) ==
    LET a == address[w]
        bal == addr[a].usdt_balance
        first == consolidation_address[w] = None
        take == ~first /\ a # consolidation_address[w]
        amt == Allocated(bal, remaining[w])
    IN
    /\ pc[w] = "select_commit"
    /\ consolidation_address' =
           [consolidation_address EXCEPT ![w] = IF first THEN a ELSE @]
    /\ selected' =
           [selected EXCEPT ![w] =
               IF take THEN Append(@, [address |-> a, amount |-> amt]) ELSE @]
    /\ remaining' = [remaining EXCEPT ![w] = IF take THEN @ - amt ELSE @]
    /\ addr' = [addr EXCEPT ![a].is_locked = TRUE]
    /\ addr_lock' = ReleaseAddrs(w)
    /\ pc' = [pc EXCEPT ![w] = "select_loop"]
    /\ UNCHANGED <<ledgerVars, address, params, gas_replenished, request, ret, chain, saga, hist>>

\* if not address: break, and then remaining > 0: raise ValueError("... Short by ...")
SelectRaise(w) ==
    /\ pc[w] = "select_loop"
    /\ remaining[w] > 0
    /\ Candidates(w) = {}
    /\ Finish(w, Raised(Select, "ValueError"))
    /\ UNCHANGED <<ledgerVars, poolVars, params, gas_replenished, request, chain, saga, hist>>

\* return consolidation_address, selected
SelectReturn(w) ==
    /\ pc[w] = "select_loop"
    /\ ~(remaining[w] > 0)
    /\ Finish(w, Returned(Select, "tuple"))
    /\ UNCHANGED <<ledgerVars, poolVars, params, gas_replenished, request, chain, saga, hist>>

\* What the caller of a finished selection of worker w holds: the shortfall in the
\* message of the ValueError, and the addresses of the returned tuple; the ValueError
\* carries the message alone.
ShortBy(w) == remaining[w]

Handed(w) ==
    IF ret[w].outcome = "return"
      THEN ({consolidation_address[w]}
               \cup {selected[w][i].address : i \in 1..Len(selected[w])}) \ {None}
      ELSE {}

\* ---------------------------------------------------------------- unlock
\* The UPDATE waits for rows that another transaction holds locked.
RowsFree(S, w) == \A a \in S \cap Addrs : addr_lock[a] \in {None, w}

\* An update without the WHERE clause.
Unlocked_All(S) == [a \in Addrs |-> [addr[a] EXCEPT !.is_locked = FALSE]]

\* update(InnerAddress).where(address.in_(params["addresses"])).values(is_locked=False)
Unlocked(S) == [a \in Addrs |-> IF a \in S THEN [addr[a] EXCEPT !.is_locked = FALSE] ELSE addr[a]]

UnlockAddresses(w) ==
    /\ pc[w] = "unlock"
    /\ RowsFree(params[w].addresses, w)
    /\ addr' = Unlocked(params[w].addresses)
    /\ hist' = [hist EXCEPT !.holder =
                    [a \in Addrs |-> IF a \in params[w].addresses THEN None ELSE @[a]]]
    /\ Finish(w, Returned(Unlock, "None"))
    /\ UNCHANGED <<ledgerVars, addr_lock, remaining, consolidation_address, selected,
                   address, params, gas_replenished, request, chain, saga>>

\* ---------------------------------------------------------------- external transfer
\* int(amount * Decimal(1_000_000)): the amount in the base units of the chain.
BaseUnits == 1000000

ToBaseUnits(amount) == amount * BaseUnits

RECURSIVE Pow10(_)
Pow10(d) == IF d = 0 THEN 1 ELSE 10 * Pow10(d - 1)

\* int(x) of the rational n / m, m > 0: the fraction is cut off, towards zero.
IntOf(n, m) == IF n >= 0 THEN n \div m ELSE -((-n) \div m)

\* int(amount * Decimal(1_000_000)) for the Decimal amount coef / 10^digits: the
\* product is exact, int() cuts its fraction off.
DecimalToBaseUnits(coef, digits) == IntOf(coef * BaseUnits, Pow10(digits))

\* send_tron_transaction is called with a Decimal amount.
CallSend ==
    /\ request.state = None
    /\ \E c \in (-MaxCoef)..MaxCoef, d \in 0..MaxDigits :
           request' = [NoRequest EXCEPT !.state = "called", !.coef = c, !.digits = d]
    /\ UNCHANGED <<ledgerVars, poolVars, pc, params, gas_replenished, ret, chain, saga, hist>>

\* data = {... int(amount * Decimal(1_000_000)) ...}; session.post(endpoint, json=data);
\* return response.status == 200
SendTronTransaction ==
    /\ request.state = "called"
    /\ \E st \in {"200", "other"} :
           request' = [request EXCEPT !.state = "posted",
                                      !.data = DecimalToBaseUnits(request.coef, request.digits),
                                      !.status = st]
    /\ UNCHANGED <<ledgerVars, poolVars, pc, params, gas_replenished, ret, chain, saga, hist>>

\* What check_and_replenish_gas can answer: enough gas, not enough, or an exception.
GasOutcomes == {"True", "False", "raise"}

\* A test that lets every answer of the gas check pass.
NotReplenished_Never(g) == FALSE

\* if not gas_replenished
NotReplenished(g) == g # "True"

\* gas_replenished = await check_and_replenish_gas(...) answers g;
\* if not gas_replenished: return False; else on to the transfer
WithdrawGas(w, g) ==
    /\ pc[w] = "withdraw_gas"
    /\ g \in GasOutcomes
    /\ gas_replenished' = [gas_replenished EXCEPT ![w] = g]
    /\ IF NotReplenished(g)
          THEN Finish(w, Returned(Withdraw, "False"))
          ELSE pc' = [pc EXCEPT ![w] = "withdraw_send"] /\ UNCHANGED ret
    /\ UNCHANGED <<ledgerVars, poolVars, params, request, chain, saga, hist>>

WithdrawGasOk(w) == WithdrawGas(w, "True")

WithdrawGasFalse(w) == WithdrawGas(w, "False")

\* except Exception: raise ApplicationError, here from the gas check
WithdrawGasError(w) ==
    /\ pc[w] = "withdraw_gas"
    /\ "raise" \in GasOutcomes
    /\ Finish(w, Raised(Withdraw, "ApplicationError"))
    /\ UNCHANGED <<ledgerVars, poolVars, params, gas_replenished, request, chain, saga, hist>>

\* The transfer the chain endpoint receives from send_tron_transaction.
Transfer(w) ==
    [from |-> params[w].from_address, to |-> params[w].to_address,
     amount |-> ToBaseUnits(params[w].amount), by |-> w]

\* success = await send_tron_transaction(...): the endpoint answers 200
WithdrawSendAccepted(w) ==
    /\ pc[w] = "withdraw_send"
    /\ chain' = Append(chain, Transfer(w))
    /\ pc' = [pc EXCEPT ![w] = "withdraw_update"]
    /\ UNCHANGED <<ledgerVars, poolVars, params, gas_replenished, request, ret, saga, hist>>

\* the endpoint answers with another status: return False
WithdrawSendRejected(w) ==
    /\ pc[w] = "withdraw_send"
    /\ Finish(w, Returned(Withdraw, "False"))
    /\ UNCHANGED <<ledgerVars, poolVars, params, gas_replenished, request, chain, saga, hist>>

\* the request fails (connection error, timeout): the endpoint may or may not have
\* accepted the transfer before the exception reaches the activity
WithdrawSendError(w) ==
    /\ pc[w] = "withdraw_send"
    /\ \E accepted \in BOOLEAN :
           chain' = IF accepted THEN Append(chain, Transfer(w)) ELSE chain
    /\ Finish(w, Raised(Withdraw, "ApplicationError"))
    /\ UNCHANGED <<ledgerVars, poolVars, params, gas_replenished, request, saga, hist>>

\* An update that adds the amount.
Debited_Added(balance, amount) == balance + amount

\* values(usdt_balance=InnerAddress.usdt_balance - params["amount"])
Debited(balance, amount) == balance - amount

\* update(InnerAddress).where(address == params["from_address"]); return True
WithdrawUpdate(w) ==
    LET f == params[w].from_address IN
    /\ pc[w] = "withdraw_update"
    /\ RowsFree({f}, w)
    /\ addr' = [a \in Addrs |->
                  IF a = f THEN [addr[a] EXCEPT !.usdt_balance = Debited(@, params[w].amount)]
                  ELSE addr[a]]
    /\ Finish(w, Returned(Withdraw, "True"))
    /\ UNCHANGED <<ledgerVars, addr_lock, remaining, consolidation_address, selected,
                   address, params, gas_replenished, request, chain, saga, hist>>

\* the update fails in the database: raise ApplicationError
WithdrawUpdateError(w) ==
    /\ pc[w] = "withdraw_update"
    /\ Finish(w, Raised(Withdraw, "ApplicationError"))
    /\ UNCHANGED <<ledgerVars, poolVars, params, gas_replenished, request, chain, saga, hist>>

\* ---------------------------------------------------------------- gas
\* check_and_replenish_gas run as an activity of its own: it answers, and changes no
\* wallet, no address row and no transfer of the token.
CheckAndReplenishGas(w) ==
    /\ pc[w] = "gas"
    /\ \E o \in GasOutcomes :
           Finish(w, IF o = "raise" THEN Raised(Gas, "ApplicationError") ELSE Returned(Gas, o))
    /\ UNCHANGED <<ledgerVars, poolVars, params, gas_replenished, request, chain, saga, hist>>

\* ---------------------------------------------------------------- activity tasks
\* The task queue hands worker w one more activity task.
Task(w) ==
    /\ hist.ncalls < MaxCalls
    /\ hist' = [hist EXCEPT !.ncalls = @ + 1]
    /\ UNCHANGED <<wallet, wallet_lock, addr, addr_lock, request, ret, chain, saga>>

CallDebit(w) ==
    \E u \in Users, a \in 0..MaxAmount :
        /\ Invoke(w, "debit_select", [NoParams EXCEPT !.user_id = u, !.amount = a])
        /\ Task(w)

CallCredit(w) ==
    \E u \in Users, a \in 0..MaxAmount :
        /\ Invoke(w, "credit_select", [NoParams EXCEPT !.user_id = u, !.amount = a])
        /\ Task(w)

CallSelect(w) ==
    \E t \in 0..MaxTarget :
        /\ Invoke(w, "select_loop", [NoParams EXCEPT !.target_amount = t])
        /\ Task(w)

\* An address that is in no row of the table.
UnknownAddrs == {"Z"}

\* The address lists of the unlock tasks: no address, one address, or all of them
\* together with an address the table does not hold.
UnlockLists == {S \in SUBSET Addrs : Cardinality(S) <= 1} \cup {Addrs \cup UnknownAddrs}

CallUnlock(w) ==
    \E S \in UnlockLists :
        /\ Invoke(w, "unlock", [NoParams EXCEPT !.addresses = S])
        /\ Task(w)

CallWithdraw(w) ==
    \E f \in Addrs, t \in ExternalAddrs, a \in 0..MaxAmount :
        /\ Invoke(w, "withdraw_gas",
                  [NoParams EXCEPT !.from_address = f, !.to_address = t, !.amount = a])
        /\ Task(w)

\* The orchestrator takes the outcome of the finished task.
Complete(w) ==
    /\ Forget(w)
    /\ UNCHANGED <<wallet, wallet_lock, addr, addr_lock, request, chain, saga, hist>>

\* ---------------------------------------------------------------- initial states
Row(b, l, m, e) == [usdt_balance |-> b, is_locked |-> l, is_aml_ban |-> m, is_external |-> e]

\* Wallet tables: u1 has a wallet, u2 may have none.
WalletTables == UNION {[S -> 0..MaxBalance] : S \in {{"u1"}, Users}}

\* The flags of an address table: no row flagged, or one row already locked, or the
\* first row banned, or the second row external.
FlagPatterns ==
    {[a \in Addrs |-> Row(0, FALSE, FALSE, FALSE)]}
        \cup {[a \in Addrs |-> Row(0, a = l, FALSE, FALSE)] : l \in Addrs}
        \cup {[a \in Addrs |-> Row(0, FALSE, a = "A", FALSE)]}
        \cup {[a \in Addrs |-> Row(0, FALSE, FALSE, a = "B")]}

\* Address tables: any balances under any flag pattern.  The code never looks at the
\* name of an address, so the tables are listed up to renaming, the balances not
\* increasing from A to C.
AddressTables ==
    {[a \in Addrs |-> [f[a] EXCEPT !.usdt_balance = b[a]]] :
        f \in FlagPatterns,
        b \in {c \in [Addrs -> 0..MaxAddrBalance] : c["A"] >= c["B"] /\ c["B"] >= c["C"]}}

EmptyPool == [a \in Addrs |-> Row(0, FALSE, FALSE, FALSE)]

NoSaga ==
    [state |-> None, user_id |-> None, amount |-> 0, to_address |-> None,
     consolidation |-> None, addresses |-> {}]

InitWith(w0, a0) ==
    /\ wallet = w0
    /\ wallet_lock = [u \in Users |-> None]
    /\ addr = a0
    /\ addr_lock = [a \in Addrs |-> None]
    /\ pc = [w \in Workers |-> "idle"]
    /\ params = [w \in Workers |-> NoParams]
    /\ user_wallet = [w \in Workers |-> NoRow]
    /\ remaining = [w \in Workers |-> 0]
    /\ consolidation_address = [w \in Workers |-> None]
    /\ selected = [w \in Workers |-> <<>>]
    /\ address = [w \in Workers |-> None]
    /\ gas_replenished = [w \in Workers |-> None]
    /\ request = NoRequest
    /\ ret = [w \in Workers |-> NoRet]
    /\ chain = <<>>
    /\ saga = [w \in Workers |-> NoSaga]
    /\ hist = [wallet0 |-> w0, addr0 |-> a0,
               debited |-> [u \in Users |-> 0], credited |-> [u \in Users |-> 0],
               ncalls |-> 0,
               holder |-> [a \in Addrs |-> None]]

\* ---------------------------------------------------------------- the wallet activities alone
LedgerInit == \E w0 \in WalletTables : InitWith(w0, EmptyPool)

LedgerNext ==
    \E w \in Workers :
        \/ CallDebit(w)
        \/ CallCredit(w)
        \/ DebitSelect(w)
        \/ DebitRaise(w)
        \/ DebitCommit(w)
        \/ CreditSelect(w)
        \/ CreditUpdate(w)
        \/ Complete(w)

LedgerSpec == LedgerInit /\ [][LedgerNext]_vars

\* ---------------------------------------------------------------- the address pool activities alone
PoolInit == \E a0 \in AddressTables : InitWith([u \in {"u1"} |-> 0], a0)

PoolNext ==
    \E w \in Workers :
        \/ CallSelect(w)
        \/ CallUnlock(w)
        \/ SelectFetch(w)
        \/ SelectCommit(w)
        \/ SelectRaise(w)
        \/ SelectReturn(w)
        \/ UnlockAddresses(w)
        \/ Complete(w)

PoolSpec == PoolInit /\ [][PoolNext]_vars

\* ---------------------------------------------------------------- the transfer activity alone
\* Each worker runs one invocation, with any arguments, the two at once.
WithdrawNext ==
    \E w \in Workers :
        \/ CallWithdraw(w)
        \/ WithdrawGasOk(w)
        \/ WithdrawGasFalse(w)
        \/ WithdrawGasError(w)
        \/ WithdrawSendAccepted(w)
        \/ WithdrawSendRejected(w)
        \/ WithdrawSendError(w)
        \/ WithdrawUpdate(w)
        \/ WithdrawUpdateError(w)

\* The activity reads no flag of a row: the tables without flags, any balances.
WithdrawInit ==
    \E a0 \in {t \in AddressTables :
                  \A a \in Addrs : ~t[a].is_locked /\ ~t[a].is_aml_ban /\ ~t[a].is_external} :
        InitWith([u \in {"u1"} |-> 0], a0)

WithdrawSpec == WithdrawInit /\ [][WithdrawNext]_vars

\* ---------------------------------------------------------------- the conversion to base units
ConvertNext == CallSend \/ SendTronTransaction

ConvertSpec == InitWith([u \in {"u1"} |-> 0], EmptyPool) /\ [][ConvertNext]_vars

\* ---------------------------------------------------------------- the withdrawal workflow
\* CryptoWithdrawalWorkflow, one run per worker: debit, selection, gas, transfer, unlock; on
\* a failure the compensations of the finished steps in reverse order.  The workflow
\* knows of an activity only what it returned or that it raised.
SagaRequests == [user_id : Users, amount : 1..MaxAmount, to_address : ExternalAddrs]

Terminal == {"Completed", "Failed"}

\* The next activity of the run of worker w starts; the frame of the last one is gone.
Continue(w, start, p) ==
    /\ Begin(w, start, p)
    /\ ret' = [ret EXCEPT ![w] = NoRet]

SagaStart(w) ==
    /\ saga[w].state = None
    /\ pc[w] = "idle"
    /\ \E r \in SagaRequests :
        /\ saga' = [saga EXCEPT ![w] =
               [state |-> "Pending", user_id |-> r.user_id, amount |-> r.amount,
                to_address |-> r.to_address, consolidation |-> None, addresses |-> {}]]
        /\ Continue(w, "debit_select",
                    [NoParams EXCEPT !.user_id = r.user_id, !.amount = r.amount])
    /\ UNCHANGED <<wallet, wallet_lock, addr, addr_lock, request, chain, hist>>

\* Step 1 failed: the run turns to compensation, and there is nothing to compensate.
SagaDebitFailed(w) ==
    /\ saga[w].state = "Pending"
    /\ Ended(w, Debit, "raise")
    /\ saga' = [saga EXCEPT ![w].state = "Compensating"]
    /\ UNCHANGED <<wallet, wallet_lock, addr, addr_lock, pc, params, gas_replenished, request, user_wallet, remaining,
                   consolidation_address, selected, address, ret, chain, hist>>

\* Step 1 done: step 2, the selection for the requested amount.
SagaDebited(w) ==
    /\ saga[w].state = "Pending"
    /\ Ended(w, Debit, "return")
    /\ saga' = [saga EXCEPT ![w].state = "BalanceDebited"]
    /\ Continue(w, "select_loop", [NoParams EXCEPT !.target_amount = saga[w].amount])
    /\ UNCHANGED <<wallet, wallet_lock, addr, addr_lock, request, chain, hist>>

\* The addresses of a returned selection.
Returned_addresses(w) ==
    ({consolidation_address[w]}
        \cup {selected[w][i].address : i \in 1..Len(selected[w])}) \ {None}

\* Step 2 done: step 3, the gas reserve of the consolidation address.
SagaSelected(w) ==
    /\ saga[w].state = "BalanceDebited"
    /\ Ended(w, Select, "return")
    /\ saga' = [saga EXCEPT ![w].state = "AddressesSelected",
                            ![w].consolidation = consolidation_address[w],
                            ![w].addresses = Returned_addresses(w)]
    /\ Continue(w, "gas",
                [NoParams EXCEPT !.from_address = consolidation_address[w],
                                 !.amount = saga[w].amount])
    /\ UNCHANGED <<wallet, wallet_lock, addr, addr_lock, request, chain, hist>>

\* Step 3 done: step 4, the broadcast from the consolidation address.
SagaGasEnsured(w) ==
    /\ saga[w].state = "AddressesSelected"
    /\ Ended(w, Gas, "return")
    /\ ret[w].value = "True"
    /\ saga' = [saga EXCEPT ![w].state = "GasEnsured"]
    /\ Continue(w, "withdraw_gas",
                [NoParams EXCEPT !.from_address = saga[w].consolidation,
                                 !.to_address = saga[w].to_address,
                                 !.amount = saga[w].amount])
    /\ UNCHANGED <<wallet, wallet_lock, addr, addr_lock, request, chain, hist>>

\* Compensation of step 2: release the addresses the workflow knows of.
CompensateUnlock(w) ==
    /\ saga' = [saga EXCEPT ![w].state = "Compensating"]
    /\ Continue(w, "unlock", [NoParams EXCEPT !.addresses = saga[w].addresses])
    /\ UNCHANGED <<wallet, wallet_lock, addr, addr_lock, request, chain, hist>>

\* Step 2 failed: the exception names no address.
SagaSelectFailed(w) ==
    /\ saga[w].state = "BalanceDebited"
    /\ Ended(w, Select, "raise")
    /\ CompensateUnlock(w)

\* Step 3 failed: the activity returned False or raised.
SagaGasFailed(w) ==
    /\ saga[w].state = "AddressesSelected"
    /\ pc[w] = "done" /\ ret[w].activity = Gas
    /\ ret[w].value # "True"
    /\ CompensateUnlock(w)

\* Step 4 failed: the activity returned False or raised.
SagaWithdrawFailed(w) ==
    /\ saga[w].state = "GasEnsured"
    /\ pc[w] = "done" /\ ret[w].activity = Withdraw
    /\ ret[w].value # "True"
    /\ CompensateUnlock(w)

\* Compensation of step 1: credit the wallet back.
SagaCompensateCredit(w) ==
    /\ saga[w].state = "Compensating"
    /\ Ended(w, Unlock, "return")
    /\ Continue(w, "credit_select",
                [NoParams EXCEPT !.user_id = saga[w].user_id, !.amount = saga[w].amount])
    /\ UNCHANGED <<wallet, wallet_lock, addr, addr_lock, request, chain, saga, hist>>

\* The compensations are through: the credit has ended, or step 1 itself had failed.
SagaFailed(w) ==
    /\ saga[w].state = "Compensating"
    /\ pc[w] = "done" /\ ret[w].activity \in {Credit, Debit}
    /\ saga' = [saga EXCEPT ![w].state = "Failed"]
    /\ Forget(w)
    /\ UNCHANGED <<wallet, wallet_lock, addr, addr_lock, request, chain, hist>>

\* Step 4 done: step 5, release the locks.
SagaWithdrawn(w) ==
    /\ saga[w].state = "GasEnsured"
    /\ Ended(w, Withdraw, "return")
    /\ ret[w].value = "True"
    /\ saga' = [saga EXCEPT ![w].state = "Broadcast"]
    /\ Continue(w, "unlock", [NoParams EXCEPT !.addresses = saga[w].addresses])
    /\ UNCHANGED <<wallet, wallet_lock, addr, addr_lock, request, chain, hist>>

SagaCompleted(w) ==
    /\ saga[w].state = "Broadcast"
    /\ Ended(w, Unlock, "return")
    /\ saga' = [saga EXCEPT ![w].state = "Completed"]
    /\ Forget(w)
    /\ UNCHANGED <<wallet, wallet_lock, addr, addr_lock, request, chain, hist>>

\* Wallet tables of the workflow runs: u1 has a wallet, u2 has none.
SagaWallets == [{"u1"} -> 0..MaxBalance]

\* Address tables of the workflow runs: no flags, or one row already locked.
SagaPools == {t \in AddressTables : \A a \in Addrs : ~t[a].is_aml_ban /\ ~t[a].is_external}

Init == \E w0 \in SagaWallets : \E a0 \in SagaPools : InitWith(w0, a0)

Next ==
    \E w \in Workers :
        \/ SagaStart(w)
        \/ SagaDebitFailed(w)
        \/ SagaDebited(w)
        \/ SagaSelected(w)
        \/ SagaSelectFailed(w)
        \/ SagaGasEnsured(w)
        \/ SagaGasFailed(w)
        \/ SagaWithdrawFailed(w)
        \/ SagaCompensateCredit(w)
        \/ SagaFailed(w)
        \/ SagaWithdrawn(w)
        \/ SagaCompleted(w)
        \/ DebitSelect(w)
        \/ DebitRaise(w)
        \/ DebitCommit(w)
        \/ CreditSelect(w)
        \/ CreditUpdate(w)
        \/ SelectFetch(w)
        \/ SelectCommit(w)
        \/ SelectRaise(w)
        \/ SelectReturn(w)
        \/ WithdrawGasOk(w)
        \/ WithdrawGasFalse(w)
        \/ WithdrawGasError(w)
        \/ WithdrawSendAccepted(w)
        \/ WithdrawSendRejected(w)
        \/ WithdrawSendError(w)
        \/ WithdrawUpdate(w)
        \/ WithdrawUpdateError(w)
        \/ UnlockAddresses(w)
        \/ CheckAndReplenishGas(w)

Spec == Init /\ [][Next]_vars

\* ---------------------------------------------------------------- the workflow with retries
\* At-least-once execution: the orchestrator runs a withdraw step that raised once
\* more, with the same arguments.  The retries of all runs count against the task
\* budget.
SagaWithdrawRetry(w) ==
    /\ saga[w].state = "GasEnsured"
    /\ Ended(w, Withdraw, "raise")
    /\ hist.ncalls < MaxCalls
    /\ hist' = [hist EXCEPT !.ncalls = @ + 1]
    /\ Continue(w, "withdraw_gas", params[w])
    /\ UNCHANGED <<wallet, wallet_lock, addr, addr_lock, request, chain, saga>>

\* The workflow from the tables in which no row is locked at the start; the worker
\* keeps taking tasks from its queue, so a run that can take a step takes one.
FairInit ==
    \E w0 \in SagaWallets :
        \E a0 \in {t \in SagaPools : \A a \in Addrs : ~t[a].is_locked} : InitWith(w0, a0)

FairSpec == FairInit /\ [][Next]_vars /\ WF_vars(Next)

RetryNext == Next \/ \E w \in Workers : SagaWithdrawRetry(w)

RetrySpec == Init /\ [][RetryNext]_vars

\* ================================================================ properties

\* ---------------------------------------------------------------- C1
\* C1: under every interleaving of debit and credit calls, each wallet balance equals
\* its initial balance minus the amounts of the debits that succeeded plus the
\* amounts of the credits that succeeded, and no committed balance is negative.
C1_BalanceAccounting ==
    \A u \in UserWallet :
        /\ wallet[u] = hist.wallet0[u] - hist.debited[u] + hist.credited[u]
        /\ wallet[u] >= 0

\* A wallet that a debit and a credit have both changed.
C1_Witness ==
    \E u \in UserWallet : hist.debited[u] > 0 /\ hist.credited[u] > 0

\* ---------------------------------------------------------------- C2
\* What the step of worker w that ends a debit must do, given the committed balance.
C2_DebitStep(w) ==
    LET u == params[w].user_id
        a == params[w].amount
        short == IF u \in UserWallet THEN wallet[u] < a ELSE TRUE
    IN
    (pc[w] = "debit_check" /\ pc'[w] = "done") =>
        IF short
          THEN ret'[w].outcome = "raise" /\ wallet' = wallet /\ addr' = addr
          ELSE /\ ret'[w].outcome = "return"
               /\ wallet' = [wallet EXCEPT ![u] = @ - a]
               /\ addr' = addr

\* C2: a debit that finds no wallet, or a balance below the amount, raises and changes
\* no wallet balance, address balance or lock flag; a debit that finds balance >=
\* amount returns and the balance decreases by exactly the amount.
C2_DebitOutcome == [][\A w \in Workers : C2_DebitStep(w)]_vars

\* A debit rejected for a wallet that exists and holds less than the amount.
C2_Witness ==
    \E w \in Workers :
        /\ Ended(w, Debit, "raise")
        /\ params[w].user_id \in UserWallet
        /\ wallet[params[w].user_id] < params[w].amount
        /\ wallet[params[w].user_id] > 0

\* ---------------------------------------------------------------- C3
\* Worker w is between the load of the wallet row of u and the end of its transaction.
InWalletTxn(w, u) ==
    pc[w] \in {"debit_check", "credit_update"} /\ params[w].user_id = u

\* C3: debits and credits on one wallet serialize: at most one of them is between its
\* balance check and its update, the balance it works on is the committed one (no
\* lost update), and of two debits that each fit the balance but not together
\* exactly one succeeds.
C3_Serialized ==
    /\ \A u \in UserWallet : \A w \in Workers :
          InWalletTxn(w, u) =>
              /\ \A v \in Workers \ {w} : ~InWalletTxn(v, u)
              /\ user_wallet[w] = <<wallet[u]>>
    /\ \A u \in UserWallet : \A w \in Workers : \A v \in Workers \ {w} :
          ( /\ hist.ncalls = 2
            /\ pc[w] = "done" /\ ret[w].activity = Debit /\ params[w].user_id = u
            /\ pc[v] = "done" /\ ret[v].activity = Debit /\ params[v].user_id = u
            /\ params[w].amount <= hist.wallet0[u]
            /\ params[v].amount <= hist.wallet0[u]
            /\ params[w].amount + params[v].amount > hist.wallet0[u] )
          => (ret[w].outcome = "return") # (ret[v].outcome = "return")

\* One worker holds the wallet row while the other waits to load the same row, and
\* either amount alone fits the balance but not both.
C3_Witness ==
    \E u \in UserWallet : \E w \in Workers : \E v \in Workers \ {w} :
        /\ pc[w] = "debit_check" /\ params[w].user_id = u
        /\ pc[v] = "debit_select" /\ params[v].user_id = u
        /\ params[w].amount <= wallet[u] /\ params[v].amount <= wallet[u]
        /\ params[w].amount + params[v].amount > wallet[u]

\* ---------------------------------------------------------------- C4
\* The allocation appended by a commit step of worker w, as a sequence of 0 or 1 entries.
Appended(w) == SubSeq(selected'[w], Len(selected[w]) + 1, Len(selected'[w]))

\* C4: when a selection returns, its allocation amounts sum to target_amount exactly,
\* and every allocation is positive and not above the balance its address had when
\* the selection locked it.
C4_ExactAllocation ==
    /\ [](\A w \in Workers :
            Ended(w, Select, "return") => SumAmounts(selected[w]) = params[w].target_amount)
    /\ [][\A w \in Workers :
            pc[w] = "select_commit" =>
                \A i \in 1..Len(Appended(w)) :
                    /\ Appended(w)[i].address = address[w]
                    /\ Appended(w)[i].amount > 0
                    /\ Appended(w)[i].amount <= addr[address[w]].usdt_balance]_vars

\* A selection that returned two allocations, the second one partial.
C4_Witness ==
    \E w \in Workers :
        /\ Ended(w, Select, "return")
        /\ Len(selected[w]) = 2
        /\ selected[w][2].amount < addr[selected[w][2].address].usdt_balance

\* ---------------------------------------------------------------- C5
\* The addresses the selection of worker w has reserved so far.
Chosen(w) ==
    ({consolidation_address[w], address[w]} \cup {selected[w][i].address : i \in 1..Len(selected[w])})
        \ {None}

\* C5: a selection never fetches an address that a selection has locked and that has
\* not been unlocked since, nor one whose is_locked flag is set, nor one that another
\* selection holds row-locked at that moment.
C5_MutualExclusion ==
    [][\A w \in Workers :
        (pc[w] = "select_loop" /\ pc'[w] = "select_commit") =>
            /\ hist.holder[address'[w]] = None
            /\ ~addr[address'[w]].is_locked
            /\ addr_lock[address'[w]] = None]_vars

\* Two selections run at once; each has locked a consolidation address of its own,
\* and one of them returns.
C5_Witness ==
    \E w \in Workers : \E v \in Workers \ {w} :
        /\ Ended(w, Select, "return")
        /\ pc[v] \in {"select_loop", "select_commit"}
        /\ consolidation_address[w] # None /\ consolidation_address[v] # None
        /\ hist.holder[consolidation_address[w]] = w
        /\ hist.holder[consolidation_address[v]] = v

\* ---------------------------------------------------------------- C6
\* C6: a selection never fetches, locks, takes as consolidation address or allocates
\* from an address whose is_aml_ban or is_external flag is set.
C6_NeverBannedOrExternal ==
    \A w \in Workers : \A a \in Chosen(w) :
        ~addr[a].is_aml_ban /\ ~addr[a].is_external

\* ---------------------------------------------------------------- C7
\* C7: when the first address a selection fetched covers the target on its own, the
\* selection returns it as consolidation address and as the only allocation, for the
\* whole target, and (nothing else running) every other address is as it was.
C7_FirstCoversAlone ==
    \A w \in Workers :
        LET c == consolidation_address[w] IN
        ( /\ pc[w] = "done" /\ ret[w].activity = Select /\ hist.ncalls = 1
          /\ c # None
          /\ addr[c].usdt_balance >= params[w].target_amount )
        => /\ ret[w].outcome = "return"
           /\ selected[w] = <<[address |-> c, amount |-> params[w].target_amount]>>
           /\ \A a \in Addrs \ {c} : addr[a] = hist.addr0[a]

\* ---------------------------------------------------------------- C8
\* The balance a selection may draw on in table t: rows unlocked, not banned, not
\* external, with a positive balance.
Available(t) ==
    {a \in Addrs : t[a].usdt_balance > 0 /\ ~t[a].is_locked
                      /\ ~t[a].is_aml_ban /\ ~t[a].is_external}

AvailableTotal(t) == SumOver([a \in Addrs |-> t[a].usdt_balance], Available(t))

Min(x, y) == IF x <= y THEN x ELSE y

\* C8: a selection that runs alone raises only if the available balance is below the
\* target, and when it returns, every chosen address, the first one included,
\* contributes min(its balance, the shortfall left before it).
C8_FailsOnlyWhenShort ==
    \A w \in Workers :
        (pc[w] = "done" /\ ret[w].activity = Select /\ hist.ncalls = 1) =>
            /\ ret[w].outcome = "raise" =>
                   AvailableTotal(hist.addr0) < params[w].target_amount
            /\ (ret[w].outcome = "return" /\ params[w].target_amount > 0) =>
                   /\ Len(selected[w]) >= 1
                   /\ selected[w][1].address = consolidation_address[w]
                   /\ \A i \in 1..Len(selected[w]) :
                          selected[w][i].amount =
                              Min(addr[selected[w][i].address].usdt_balance,
                                  params[w].target_amount
                                      - SumAmounts(SubSeq(selected[w], 1, i - 1)))

\* ---------------------------------------------------------------- C9
\* No workflow run is under way.
Quiet == \A w \in Workers : saga[w].state \in Terminal \cup {None}

\* The runs that ended Completed.
CompletedRuns == {w \in Workers : saga[w].state = "Completed"}

\* The amounts of the runs in S, summed.
RunAmount(S) == SumOver([w \in Workers |-> saga[w].amount], S)

TotalBalance(t) == SumOver([a \in Addrs |-> t[a].usdt_balance], Addrs)

\* C9: once the runs have ended, every completed run of amount X has taken exactly X
\* from the wallet of its user and exactly X from the custodial addresses, exactly one
\* transfer of X was accepted for it, and no custodial balance is negative.
C9_CompletedRunAccounts ==
    (Quiet /\ CompletedRuns # {}) =>
        /\ \A u \in UserWallet :
              wallet[u] = hist.wallet0[u]
                              - RunAmount({w \in CompletedRuns : saga[w].user_id = u})
        /\ TotalBalance(addr) = TotalBalance(hist.addr0) - RunAmount(CompletedRuns)
        /\ \A w \in CompletedRuns :
              /\ Cardinality({i \in 1..Len(chain) : chain[i].by = w}) = 1
              /\ \A i \in 1..Len(chain) :
                    chain[i].by = w =>
                        /\ chain[i].amount = saga[w].amount * BaseUnits
                        /\ chain[i].to = saga[w].to_address
        /\ \A a \in Addrs : addr[a].usdt_balance >= 0

\* ---------------------------------------------------------------- C10
\* C10: when every run that started has failed before any broadcast was accepted and
\* its compensation has run, every wallet balance, address balance and is_locked
\* flag has its value from before the runs.
C10_CompensationRestores ==
    ( /\ Quiet
      /\ \E w \in Workers : saga[w].state = "Failed"
      /\ CompletedRuns = {}
      /\ chain = <<>> )
    => (wallet = hist.wallet0 /\ addr = hist.addr0)

\* ---------------------------------------------------------------- C11
\* The chain endpoint has accepted a transfer submitted by the run of worker w.
Accepted(w) == \E i \in 1..Len(chain) : chain[i].by = w

\* C11: once the chain endpoint has accepted the transfer of a run, the withdraw step
\* of that run neither returns False nor raises, the run is never compensated and
\* never ends Failed, and the wallet of its user is not credited back.
C11_NoFailureAfterAccepted ==
    \A w \in Workers :
        Accepted(w) =>
            /\ (pc[w] = "done" /\ ret[w].activity = Withdraw) => ret[w].value = "True"
            /\ saga[w].state \notin {"Compensating", "Failed"}
            /\ pc[w] \notin {"credit_select", "credit_update"}

\* ---------------------------------------------------------------- C12
\* The transfers the chain endpoint has accepted from the run of worker w.
Transfers(w) == {i \in 1..Len(chain) : chain[i].by = w}

\* C12: whatever step is run again, the chain endpoint accepts at most one transfer
\* per run: a withdraw step that is run again after a transfer of its run was
\* accepted does not submit the transfer again.
C12_AtMostOneTransfer ==
    \A w \in Workers : Cardinality(Transfers(w)) <= 1

\* ---------------------------------------------------------------- C13
\* Workers w and v have both finished activity act for user u and amount a, and these
\* two executions are all that ran.
RanTwice(act, w, v, u, a) ==
    /\ hist.ncalls = 2
    /\ Ended(w, act, "return") /\ params[w].user_id = u /\ params[w].amount = a
    /\ Ended(v, act, "return") /\ params[v].user_id = u /\ params[v].amount = a

\* C13: a debit, or a credit, that is executed a second time for the same user and
\* amount leaves the wallet balance at its value after the first execution.
C13_ReplaySafe ==
    \A u \in UserWallet : \A a \in 0..MaxAmount :
        \A w \in Workers : \A v \in Workers \ {w} :
            /\ RanTwice(Debit, w, v, u, a) => wallet[u] = Withdrawn(<<hist.wallet0[u]>>, a)
            /\ RanTwice(Credit, w, v, u, a) => wallet[u] = RolledBack(<<hist.wallet0[u]>>, a)

\* ---------------------------------------------------------------- C14
\* Row r with its lock flag cleared if named is true, and as it is otherwise.
Cleared(r, named) ==
    [usdt_balance |-> r.usdt_balance, is_locked |-> IF named THEN FALSE ELSE r.is_locked,
     is_aml_ban |-> r.is_aml_ban, is_external |-> r.is_external]

\* C14: unlock_addresses clears is_locked on exactly the addresses it is given and
\* changes no balance, no wallet and no flag of another address; given addresses that
\* are unlocked already or in no row it changes nothing for them, and two calls with
\* one list leave the table as one call does.
C14_UnlockExact ==
    /\ [](\A w \in Workers : \A v \in Workers \ {w} :
            ( /\ hist.ncalls = 2
              /\ Ended(w, Unlock, "return") /\ Ended(v, Unlock, "return")
              /\ params[w].addresses = params[v].addresses )
            => addr = [a \in Addrs |-> Cleared(hist.addr0[a], a \in params[w].addresses)])
    /\ [][\A w \in Workers :
            (pc[w] = "unlock" /\ pc'[w] = "done") =>
                /\ \A a \in Addrs : addr'[a] = Cleared(addr[a], a \in params[w].addresses)
                /\ wallet' = wallet]_vars

\* Two calls with one list that names a row locked from the start and an address in no
\* row have both returned.
C14_Witness ==
    \E w \in Workers : \E v \in Workers \ {w} :
        /\ hist.ncalls = 2
        /\ Ended(w, Unlock, "return") /\ Ended(v, Unlock, "return")
        /\ params[w].addresses = params[v].addresses
        /\ params[w].addresses \cap UnknownAddrs # {}
        /\ \E a \in params[w].addresses \cap Addrs : hist.addr0[a].is_locked

\* ---------------------------------------------------------------- C15
\* C15: the update of the address balance that follows an accepted broadcast raises
\* and leaves the balance as it is when the balance is below the amount, and no
\* address balance is ever negative.
C15_AddressDebitGuarded ==
    /\ [](\A a \in Addrs : addr[a].usdt_balance >= 0)
    /\ [][\A w \in Workers :
            ( /\ pc[w] = "withdraw_update" /\ pc'[w] = "done"
              /\ addr[params[w].from_address].usdt_balance < params[w].amount )
            => (ret'[w].outcome = "raise" /\ addr' = addr)]_vars

\* ---------------------------------------------------------------- C16
\* The states of a run on its way to success, in their order.
Forward ==
    <<"Pending", "BalanceDebited", "AddressesSelected", "GasEnsured", "Broadcast", "Completed">>

Rank(st) == CHOOSE i \in 1..Len(Forward) : Forward[i] = st

\* The states a run can fail from.
NonTerminal == {Forward[i] : i \in 1..(Len(Forward) - 1)}

\* A change of the state of a run from old to new is one the state machine has.
Transition(old, new) ==
    \/ old = None /\ new = "Pending"
    \/ old \in NonTerminal /\ new \in NonTerminal \cup {"Completed"} /\ Rank(new) = Rank(old) + 1
    \/ old \in NonTerminal /\ new = "Compensating"
    \/ old = "Compensating" /\ new = "Failed"

Submits(w) ==
    IF Len(chain') > Len(chain) THEN chain'[Len(chain')].by = w ELSE FALSE

\* C17: withdraw_usdt_to_external submits the transfer only when the gas check of the
\* same invocation has answered True; when the gas check answers False the activity
\* returns False at once, no transfer is submitted and no address row changes.
C17_GasBeforeTransfer ==
    /\ [](\A w \in Workers :
            pc[w] \in {"withdraw_send", "withdraw_update"} => gas_replenished[w] = "True")
    /\ [][\A w \in Workers :
            /\ Submits(w) => (pc[w] = "withdraw_send" /\ gas_replenished[w] = "True")
            /\ (pc[w] = "withdraw_gas" /\ gas_replenished'[w] = "False") =>
                  /\ pc'[w] = "done" /\ ret'[w] = Returned(Withdraw, "False")
                  /\ chain' = chain /\ addr' = addr /\ wallet' = wallet]_vars

\* One invocation has returned False after the gas check answered False and has
\* submitted nothing, while the other has had its transfer accepted.
C17_Witness ==
    \E w \in Workers : \E v \in Workers \ {w} :
        /\ Ended(w, Withdraw, "return") /\ ret[w].value = "False"
        /\ gas_replenished[w] = "False" /\ ~Accepted(w)
        /\ gas_replenished[v] = "True" /\ Accepted(v)

\* ---------------------------------------------------------------- C18
\* The address table after the balance of row f went down by amount a, all else as it was.
Decremented(f, a) ==
    [x \in Addrs |->
        IF x = f THEN [usdt_balance |-> addr[x].usdt_balance - a, is_locked |-> addr[x].is_locked,
                       is_aml_ban |-> addr[x].is_aml_ban, is_external |-> addr[x].is_external]
        ELSE addr[x]]

\* The chain endpoint has accepted the transfer of amount a from f for worker w.
AcceptedFrom(w, f, a) ==
    \E i \in 1..Len(chain) :
        chain[i].by = w /\ chain[i].from = f /\ chain[i].amount = a * BaseUnits

\* C18: withdraw_usdt_to_external changes an address row only after the chain
\* endpoint accepted its transfer: a rejected broadcast ends the activity with False
\* and leaves every address balance, lock flag and wallet balance as it was; after an
\* accepted one the update takes exactly the transferred amount from exactly
\* from_address and changes no flag, and the activity returns True.
C18_DebitAfterAccepted ==
    [][\A w \in Workers :
        LET f == params[w].from_address
            a == params[w].amount
        IN
        /\ (pc[w] = "withdraw_send" /\ ret'[w].outcome = "return") =>
              /\ ret'[w].value = "False"
              /\ chain' = chain /\ addr' = addr /\ wallet' = wallet
        /\ (pc[w] # "done" /\ ret'[w].value = "True") =>
              /\ AcceptedFrom(w, f, a)
              /\ addr' = Decremented(f, a)
              /\ wallet' = wallet
        /\ (pc'[w] # pc[w] /\ addr' # addr) =>
              (pc[w] = "withdraw_update" /\ ret'[w].value = "True")]_vars

\* One invocation was rejected by the endpoint after its gas check passed; the other
\* was accepted and has taken a positive amount from its address.
C18_Witness ==
    \E w \in Workers : \E v \in Workers \ {w} :
        /\ Ended(w, Withdraw, "return") /\ ret[w].value = "False"
        /\ gas_replenished[w] = "True"
        /\ Ended(v, Withdraw, "return") /\ ret[v].value = "True"
        /\ params[v].amount > 0
        /\ addr[params[v].from_address].usdt_balance
               = hist.addr0[params[v].from_address].usdt_balance - params[v].amount

\* ---------------------------------------------------------------- C19
\* C19: when a selection that ran alone has returned, every address it chose, the
\* consolidation address and every allocation address, has is_locked set, and the
\* stored balance of every allocation address is its balance from before the
\* selection less the amount allocated from it.
C19_LockedAndDecremented ==
    \A w \in Workers :
        (Ended(w, Select, "return") /\ hist.ncalls = 1) =>
            /\ \A a \in Chosen(w) : addr[a].is_locked
            /\ \A i \in 1..Len(selected[w]) :
                  addr[selected[w][i].address].usdt_balance =
                      hist.addr0[selected[w][i].address].usdt_balance - selected[w][i].amount

\* ---------------------------------------------------------------- C20
\* C20: when a selection that ran alone has raised for insufficient funds, every
\* address it locked is still locked, the shortfall it reports is the target less
\* the amounts it allocated, and the addresses it locked are handed to the caller.
C20_FailureHandsLocked ==
    \A w \in Workers :
        (Ended(w, Select, "raise") /\ hist.ncalls = 1) =>
            /\ \A a \in Chosen(w) : addr[a].is_locked
            /\ ShortBy(w) = params[w].target_amount - SumAmounts(selected[w])
            /\ Chosen(w) \subseteq Handed(w)

\* ---------------------------------------------------------------- C21
\* The rows a fetch of worker w may return: positive balance, not banned, not external,
\* not locked, and not row-locked by another transaction.
Fetchable(w) ==
    {a \in Available(addr) : addr_lock[a] \in {None, w}}

\* C21: every fetch of a selection returns one of the eligible, unlocked, not
\* row-locked addresses, and one of largest balance among them; so the consolidation
\* address of a selection that runs alone has the largest balance of its addresses,
\* and its allocations come in non-increasing order of balance.
C21_LargestFirst ==
    /\ [](\A w \in Workers :
            (hist.ncalls = 1 /\ consolidation_address[w] # None) =>
                /\ \A i \in 1..Len(selected[w]) :
                      addr[selected[w][i].address].usdt_balance
                          <= addr[consolidation_address[w]].usdt_balance
                /\ \A i \in 1..Len(selected[w]) : \A j \in i..Len(selected[w]) :
                      addr[selected[w][j].address].usdt_balance
                          <= addr[selected[w][i].address].usdt_balance)
    /\ [][\A w \in Workers :
            (pc[w] = "select_loop" /\ pc'[w] = "select_commit") =>
                /\ address'[w] \in Fetchable(w)
                /\ \A b \in Fetchable(w) :
                      addr[b].usdt_balance <= addr[address'[w]].usdt_balance]_vars

\* ---------------------------------------------------------------- C22
\* The loop iterations of the selection of worker w that fetched a row and committed.
Iterations(w) == Len(selected[w]) + (IF consolidation_address[w] = None THEN 0 ELSE 1)

\* C22: a selection never waits and always ends: at the head of the loop it can fetch,
\* raise or return whatever rows the other workers hold, and a fetched row can always
\* be committed; every fetch returns an address that this selection has not chosen
\* before, the consolidation address included; so the iterations that fetch a row
\* are at most as many as there are addresses.
C22_SelectionTerminates ==
    /\ [](\A w \in Workers :
            /\ pc[w] = "select_loop" =>
                  ENABLED (SelectFetch(w) \/ SelectRaise(w) \/ SelectReturn(w))
            /\ pc[w] = "select_commit" => ENABLED SelectCommit(w)
            /\ Iterations(w) <= Cardinality(Addrs))
    /\ [][\A w \in Workers :
            (pc[w] = "select_loop" /\ pc'[w] = "select_commit") =>
                address'[w] \notin Chosen(w)]_vars

\* ---------------------------------------------------------------- C23
\* C23: the integer that send_tron_transaction posts is the amount times 1,000,000
\* exactly; for an amount with more than 6 fractional digits, whose product is no
\* integer, nothing is posted.
C23_ExactBaseUnits ==
    request.state = "posted" =>
        request.data * Pow10(request.digits) = request.coef * BaseUnits
====
